---- MODULE Spec2Model ----
(***************************************************************************)
(* Model of the summarization request orchestrator (BackgroundService in   *)
(* src/src/background.ts) with the provider adapters of                    *)
(* src/src/api-integrations and the summary cache it consults.             *)
(*                                                                         *)
(* JavaScript runs one task at a time and gives up control only at an      *)
(* await: every action below is the code that runs between two awaits of   *)
(* one request.  `running` marks the request that holds the thread: inside  *)
(* the synchronous section of startLLMRequest, and while a continuation of *)
(* it is already queued as a microtask (an await of a promise that is      *)
(* already settled), which runs before any timer, message or I/O callback. *)
(***************************************************************************)
EXTENDS Integers, Sequences, FiniteSets, TLC

(***************************************************************************)
(* Bounds of the model                                                     *)
(***************************************************************************)
\* number of startLLMRequest calls in one behaviour
MaxTasks == 2
\* number of clock advances in one behaviour
MaxTicks == 1
\* longest message list handed to a pure function of the chunker
MaxLen == 4

(***************************************************************************)
(* Program constants                                                       *)
(***************************************************************************)
\* background.ts:66   const maxAge = 30 * 60 * 1000
maxAge == 1800000
\* background.ts:250  estimatedTokens > 100000
LargeContextThreshold == 100000
\* background.ts:403  const maxChunkSize = 50000
maxChunkSize == 50000
\* background.ts:248  Math.ceil(totalLength / 4)
CharsPerToken == 4
\* types.ts:101,107   DEFAULT_PROMPTS[language].maxTokens
DefaultMaxTokens == 1000
\* cache: configured expiry (operator-tunable, default one day), in ms
CacheExpiryMs == 86400000
\* cache: configured maximum entry count (operator-tunable), kept small here
CacheMaxSize == 2

Providers == {"claude", "openai", "openrouter", "portkey"}
Languages == {"chinese", "english"}
Roles == {"system", "user", "assistant"}
RequestIds == {"r1", "r2", "r3"}
Tasks == 1..MaxTasks
\* tabId is optional in ChatRequest: NoTab stands for `undefined`
NoTab == 0
TabIds == {1, 2}

(***************************************************************************)
(* Messages.  The content of a message is kept as a label and its length   *)
(* in characters; `cut` says the content is a truncated prefix.            *)
(***************************************************************************)
Msg(r, t, n) == [role |-> r, text |-> t, len |-> n, cut |-> FALSE]

\* types.ts:149  isTextSummarization
isTextSummarization(messages) ==
    Len(messages) = 1 /\ messages[1].role = "user"

RECURSIVE SumLen(_)
\* background.ts:247  messages.reduce((sum, msg) => sum + msg.content.length, 0)
SumLen(messages) ==
    IF messages = << >> THEN 0
    ELSE Head(messages).len + SumLen(Tail(messages))

\* Math.ceil(n / 4)
CeilDiv(n, d) == (n + d - 1) \div d

\* background.ts:247-248
EstimatedTokens(messages) == CeilDiv(SumLen(messages), CharsPerToken)


(***************************************************************************)
(* Context chunker (pure functions of BackgroundService)                   *)
(***************************************************************************)
RECURSIVE ChunkLoop(_, _, _, _)
\* background.ts:408-426  the for loop of chunkLargeContext and its tail
ChunkLoop(rest, chunks, currentChunk, currentChunkSize) ==
    IF rest = << >>
    THEN IF Len(currentChunk) > 0 THEN Append(chunks, currentChunk) ELSE chunks
    ELSE LET message == Head(rest)
             messageSize == message.len
             flush == currentChunkSize + messageSize > maxChunkSize
                      /\ Len(currentChunk) > 0
         IN  IF flush
             THEN ChunkLoop(Tail(rest), Append(chunks, currentChunk),
                            << message >>, messageSize)
             ELSE ChunkLoop(Tail(rest), chunks,
                            Append(currentChunk, message),
                            currentChunkSize + messageSize)

\* mutant: the first message is left out of the partition
chunkLargeContextDropsFirst(messages) ==
    IF messages = << >> THEN << >>
    ELSE ChunkLoop(Tail(messages), << >>, << >>, 0)

\* mutant: every message becomes a chunk of its own
chunkLargeContextOnePerMessage(messages) ==
    [k \in 1..Len(messages) |-> << messages[k] >>]

\* background.ts:402-429
chunkLargeContext(messages) == ChunkLoop(messages, << >>, << >>, 0)

\* background.ts:444-446  length of the text wrapped around the synopsis
SummaryWrapLen(language) == IF language = "chinese" THEN 27 ELSE 113

\* background.ts:432-450
integrateSummaryWithChunk(chunk, summary, language) ==
    IF summary = "" THEN chunk
    ELSE << [role |-> "system", text |-> summary,
             len |-> SummaryWrapLen(language) + Len(summary),
             cut |-> FALSE] >> \o chunk

RECURSIVE ContextLine(_)
\* background.ts:385  chunk.map(msg => `${msg.role}: ${msg.content}`).join('\n')
ContextLine(chunk) ==
    IF chunk = << >> THEN 0
    ELSE Len(Head(chunk).role) + 2 + Head(chunk).len
         + (IF Len(chunk) > 1 THEN 1 ELSE 0) + ContextLine(Tail(chunk))

\* background.ts:385  processedContext += '\n\n' + ...   (length only)
AppendProcessed(processedLen, chunk) == processedLen + 2 + ContextLine(chunk)

(***************************************************************************)
(* Portkey adapter: large context helper                                   *)
(***************************************************************************)
\* portkey.ts:193
estimateTokens(len) == CeilDiv(len, CharsPerToken)

Reverse(s) == [i \in 1..Len(s) |-> s[Len(s) + 1 - i]]

Max(a, b) == IF a > b THEN a ELSE b
Min(a, b) == IF a < b THEN a ELSE b

RECURSIVE KeepRecent(_, _, _, _)
\* portkey.ts:207-229  the loop over remainingMessages (newest first)
KeepRecent(remaining, processedMessages, totalTokens, maxTokens) ==
    IF remaining = << >> THEN processedMessages
    ELSE LET message == Head(remaining)
             messageTokens == estimateTokens(message.len)
             reservedTokens == maxTokens \div 3
             availableTokens == maxTokens - reservedTokens
         IN  IF totalTokens + messageTokens <= availableTokens
             THEN KeepRecent(Tail(remaining),
                             << message >> \o processedMessages,
                             totalTokens + messageTokens, maxTokens)
             ELSE IF messageTokens > availableTokens - totalTokens
                  THEN LET availableChars == (availableTokens - totalTokens) * 4
                           kept == Min(message.len, Max(availableChars, 0))
                       IN  << [role |-> message.role, text |-> message.text,
                               len |-> kept + 3, cut |-> TRUE] >>
                           \o processedMessages
                  ELSE KeepRecent(Tail(remaining), processedMessages,
                                  totalTokens, maxTokens)

\* portkey.ts:188-232
processLargeContext(messages, maxTokens) ==
    LET keepSystem == Len(messages) > 0 /\ messages[1].role = "system"
        first == IF keepSystem THEN << messages[1] >> ELSE << >>
        firstTokens == IF keepSystem THEN estimateTokens(messages[1].len) ELSE 0
        remaining == IF Len(messages) > 0 THEN Reverse(Tail(messages)) ELSE << >>
    IN  KeepRecent(remaining, first, firstTokens, maxTokens)

(***************************************************************************)
(* Summary cache.  Its source (src/cache) is not part of the sources at    *)
(* hand; it is modelled from section 4.2 of the specification.  Entries    *)
(* are keyed by "<content-key>|<language>".                                *)
(***************************************************************************)
CacheUrls == {"u1", "u2"}
CacheKeys == CacheUrls \X Languages
NoEntry == << >>

CacheCount(c) == Cardinality({k \in CacheKeys : c[k] # NoEntry})

\* SummaryCache.get: absent when there is no entry or the entry is expired
CacheGet(c, k, clock) ==
    IF c[k] = NoEntry \/ clock - c[k][1].timestamp > CacheExpiryMs
    THEN ""
    ELSE c[k][1].summary

\* the stored entry with the smallest timestamp (ties: smallest key)
Oldest(c) ==
    LET held == {k \in CacheKeys : c[k] # NoEntry}
        Before(a, b) ==
            \/ c[a][1].timestamp < c[b][1].timestamp
            \/ /\ c[a][1].timestamp = c[b][1].timestamp
               /\ \/ a[1] = "u1" /\ b[1] = "u2"
                  \/ a[1] = b[1] /\ a[2] = "chinese" /\ b[2] = "english"
    IN  CHOOSE k \in held : \A o \in held \ {k} : Before(k, o)

\* mutant: nothing is evicted
EvictNothing(c) == c

RECURSIVE Evict(_)
\* evicts oldest-first until there is room for one more entry
Evict(c) ==
    IF CacheCount(c) < CacheMaxSize THEN c
    ELSE Evict([c EXCEPT ![Oldest(c)] = NoEntry])

\* SummaryCache.set: evict when at or above the maximum, then insert
CacheSet(c, k, summary, provider, clock) ==
    [Evict(c) EXCEPT ![k] = << [summary |-> summary, provider |-> provider,
                                 timestamp |-> clock] >>]

(***************************************************************************)
(* LLMResponse (types.ts:1-6).  error "" and cachedAt -1 stand for absent  *)
(* fields.                                                                 *)
(***************************************************************************)
Response(s) == [summary |-> s, error |-> "", fromCache |-> FALSE, cachedAt |-> -1]
\* background.ts:219-223
CachedResponse(s, at) == [summary |-> s, error |-> "", fromCache |-> TRUE, cachedAt |-> at]
\* mutant: the catch of callLLMAPI returns an object without the message
ErrorResponseWithoutMessage(msg) ==
    [summary |-> "", error |-> "", fromCache |-> FALSE, cachedAt |-> -1]
\* background.ts:269-272
ErrorResponse(msg) == [summary |-> "", error |-> msg, fromCache |-> FALSE, cachedAt |-> -1]
NoResponse == Response("")

(***************************************************************************)
(* What one attempt to reach a provider can produce: a 2xx answer with a   *)
(* summary text, a 2xx answer without the expected content, a 429, or a    *)
(* transport error.                                                        *)
(***************************************************************************)
Summaries == {"X", "Y"}
Outcomes == Summaries \cup {"malformed", "http429", "network"}
AttemptOk(o) == o \in Summaries \cup {"malformed"}
\* openai.ts:91, openrouter.ts:97, portkey.ts:85,177, claude:76
AttemptSummary(o) == IF o = "malformed" THEN "No response generated" ELSE o
\* openai.ts:75-87,95  the message of the Error an adapter throws
AttemptError(o) ==
    IF o = "http429" THEN "API request failed (429): rate limit tip"
    ELSE "Network error: unable to connect"

\* types.ts:79-86  validateConfig: "" when the configuration passes
validateConfig(cfg) ==
    IF cfg = << >> THEN "API provider not initialized. Call initialize() first."
    ELSE IF cfg[1].apiKey = "" THEN "API key is required"
    ELSE ""

(***************************************************************************)
(* State                                                                   *)
(***************************************************************************)
VARIABLES
    pendingRequests,       \* Map<string, PendingRequest>: id -> task holding the object, 0 = no entry
    tasks,                 \* one record per startLLMRequest call: the PendingRequest object it
                           \* created and the locals of its processLLMRequest / callLLMAPI
    ntasks,                \* number of startLLMRequest calls so far
    running,               \* task inside its synchronous section, 0 = none
    conversationContexts,  \* Map tab -> messages (<< >> = no entry)
    config,                \* BaseAPIProvider.config of the one shared instance per provider
    cache,                 \* SummaryCache store
    now,                   \* Date.now()
    ticks,                 \* number of clock advances so far
    lastSummary,           \* history: per cache key, the summary of the last cache-eligible
                           \* request that completed successfully, "" once the cache was
                           \* written, cleared or the clock moved since
    fnInput,               \* the message list handed to a pure function of the chunker
    fnOutput               \* the function applied to fnInput and what it returned

vars == << pendingRequests, tasks, ntasks, running, conversationContexts,
           config, cache, now, ticks, lastSummary, fnInput, fnOutput >>

\* types.ts:28-41  ChatRequest; language "" and tabId NoTab stand for absent fields
Request(m, p, k, u, l, f, tab) ==
    [messages |-> m, provider |-> p, apiKey |-> k, url |-> u, language |-> l,
     forceFresh |-> f, tabId |-> tab]

\* background.ts:210  language = 'chinese'
LanguageOf(request) == IF request.language = "" THEN "chinese" ELSE request.language

IdleTask ==
    [pc |-> "none", id |-> "r1",
     request |-> Request(<< >>, "claude", "", "", "", FALSE, NoTab),
     status |-> "pending", result |-> << >>, error |-> << >>, timestamp |-> 0,
     kind |-> "none", attempt |-> "none", key |-> "", sent |-> << >>, reject |-> "",
     chunks |-> << >>, i |-> 0, processedLen |-> 0, conversationSummary |-> "",
     cachedSummary |-> "", ret |-> NoResponse, threw |-> FALSE,
     returnedAt |-> "none", expected |-> "",
     calls |-> 0, reads |-> 0, writes |-> 0, callFailed |-> FALSE,
     attempts |-> 0, order |-> << >>, answers |-> << >>, failure |-> "",
     flawed |-> FALSE, getFailed |-> FALSE, setFailed |-> FALSE,
     malformed |-> FALSE, ctx |-> "none", evicted |-> FALSE,
     passed |-> << >>, condensed |-> 0, obtained |-> << >>, missed |-> 0]

\* fnOutput before a function was applied
NoOutput == [fn |-> "none", arg |-> << >>, value |-> << >>]

\* background.ts:35-47  the fields of a BackgroundService just constructed
Constructed ==
    /\ pendingRequests = [id \in RequestIds |-> 0]
    /\ tasks = [t \in Tasks |-> IdleTask]
    /\ ntasks = 0
    /\ running = 0
    /\ conversationContexts = [tab \in TabIds |-> << >>]
    /\ config = [p \in Providers |-> << >>]
    /\ cache = [k \in CacheKeys |-> NoEntry]
    /\ now = 0
    /\ ticks = 0
    /\ lastSummary = [k \in CacheKeys |-> ""]

Init ==
    /\ Constructed
    /\ fnInput = << >>
    /\ fnOutput = NoOutput

(***************************************************************************)
(* callLLMAPI and what it calls, as functions from the task record at one  *)
(* await to the task record at the next.  `cfg` is the configuration the   *)
(* shared adapter instance holds when the code reads it.                   *)
(***************************************************************************)
\* mutant: the lookup forgets the force-refresh flag
CacheReadableIgnoringForceFresh(request) ==
    /\ request.url # ""
    /\ Len(request.messages) = 1
    /\ request.messages[1].role = "user"

\* mutant: the lookup forgets the single-user-message test
CacheReadableAnyMessages(request) ==
    /\ request.url # ""
    /\ ~request.forceFresh

\* background.ts:214
CacheReadable(request) ==
    /\ request.url # ""
    /\ ~request.forceFresh
    /\ Len(request.messages) = 1
    /\ request.messages[1].role = "user"

\* mutant: the write forgets the single-user-message test
CacheWritableAnyMessages(request, apiResponse) ==
    /\ request.url # ""
    /\ apiResponse.summary # ""
    /\ apiResponse.error = ""

\* background.ts:262
CacheWritable(request, apiResponse) ==
    /\ request.url # ""
    /\ apiResponse.summary # ""
    /\ apiResponse.error = ""
    /\ Len(request.messages) = 1
    /\ request.messages[1].role = "user"

CacheKeyOf(request) == << request.url, LanguageOf(request) >>

\* callLLMAPI returns (background.ts:219,252,254,266) or catches and returns
\* (background.ts:267-273): its promise resolves, processLLMRequest resumes later
Finish(tk, resp) == [tk EXCEPT !.pc = "settle", !.ret = resp, !.threw = FALSE]

\* portkey.ts:24-83, openai.ts:21-67 (claude, openrouter alike): callAPI up to
\* its first await; a failed validateConfig rejects the returned promise
callAPI(tk, kind, messages, cfg) ==
    LET bad == validateConfig(cfg)
    IN  IF bad # ""
        THEN [tk EXCEPT !.pc = "api", !.kind = kind, !.attempt = "rejected",
                        !.reject = bad, !.sent = messages, !.attempts = 0]
        ELSE [tk EXCEPT !.pc = "api", !.kind = kind,
                        !.attempt = IF kind = "direct" THEN "fetch" ELSE "sdk",
                        !.key = cfg[1].apiKey, !.sent = messages,
                        !.calls = @ + 1, !.attempts = 1,
                        !.order = Append(@, << kind, tk.i >>)]

\* portkey.ts:234-243
callLargeContextAPI(tk, kind, messages, cfg) ==
    callAPI(tk, kind, processLargeContext(messages, DefaultMaxTokens), cfg)

\* types.ts:98-105  lengths of the default prompt templates
SystemPromptLen(language) == IF language = "chinese" THEN 45 ELSE 154
UserPromptLen(language) == IF language = "chinese" THEN 39 ELSE 126

\* portkey.ts:37-49  the two messages built from a text
TextMessages(textLen, language) ==
    << Msg("system", "systemPrompt", SystemPromptLen(language)),
       Msg("user", "processedContext", UserPromptLen(language) + textLen) >>

\* mutant: the chunk call is issued but its promise never settles
ChunkCallUnanswered(tk, cfg) ==
    [tk EXCEPT !.pc = "api", !.kind = "chunk", !.attempt = "unanswered"]

\* background.ts:370-379  the chunk call of iteration i
ChunkCall(tk, cfg) ==
    LET chunkWithSummary ==
            integrateSummaryWithChunk(tk.chunks[tk.i], tk.conversationSummary,
                                      LanguageOf(tk.request))
    IN  callLargeContextAPI([tk EXCEPT !.passed = chunkWithSummary], "chunk",
                            chunkWithSummary, cfg)

\* mutant: no synopsis is asked for between two chunks
LoopTopWithoutSynopsis(tk, cfg) == ChunkCall(tk, cfg)

\* background.ts:352-370  top of the loop body for iteration i (1-based here)
LoopTop(tk, cfg) ==
    IF tk.i > 1 /\ tk.processedLen > 0
    THEN callAPI(tk, "synopsis",
                 TextMessages(tk.processedLen, LanguageOf(tk.request)), cfg)
    ELSE ChunkCall(tk, cfg)

\* background.ts:325-350,398  handleExtremelyLargeContext up to its first await
handleExtremelyLargeContext(tk, cfg) ==
    LET messages == tk.request.messages
        chunkedMessages == chunkLargeContext(messages)
    IN  IF EstimatedTokens(messages) < LargeContextThreshold
        THEN callLargeContextAPI(tk, "large", messages, cfg)
        ELSE IF Len(chunkedMessages) = 0
             THEN Finish(tk, ErrorResponse("Failed to process large context"))
             ELSE LoopTop([tk EXCEPT !.chunks = chunkedMessages, !.i = 1,
                                     !.processedLen = 0,
                                     !.conversationSummary = "",
                                     !.condensed = 0], cfg)

\* background.ts:203-206,232-242  initialize() of the shared instance
InitializeApiProvider(cfgs, request) ==
    IF request.provider \in Providers
    THEN [cfgs EXCEPT ![request.provider] = << [apiKey |-> request.apiKey] >>]
    ELSE cfgs

\* background.ts:227-230
StoreContext(ctx, request) ==
    IF request.tabId # NoTab
    THEN [ctx EXCEPT ![request.tabId] = << request.messages >>]
    ELSE ctx

\* mutant: an unknown provider is recorded as the terminal state at once,
\* inside the synchronous section of startLLMRequest
DispatchSettlesUnknownProvider(tk) ==
    LET request == tk.request
        cfg == << [apiKey |-> request.apiKey] >>
    IN  IF request.provider \notin Providers
        THEN [tk EXCEPT !.pc = "done", !.status = "completed",
                        !.ret = ErrorResponse("Unknown API provider"),
                        !.result = << ErrorResponse("Unknown API provider") >>]
        ELSE IF request.provider = "portkey"
             THEN IF EstimatedTokens(request.messages) > LargeContextThreshold
                  THEN handleExtremelyLargeContext(tk, cfg)
                  ELSE callLargeContextAPI(tk, "large", request.messages, cfg)
             ELSE callAPI(tk, "direct", request.messages, cfg)

\* history: the request has stored its messages as the context of its tab
\* (background.ts:228-230)
Stored(tk) ==
    IF tk.request.tabId # NoTab THEN [tk EXCEPT !.ctx = "stored"] ELSE tk

\* background.ts:227-259  from the context store and initializeApiProvider to
\* the first provider call
Dispatch(tk0) ==
    LET tk == Stored(tk0)
        request == tk.request
        cfg == << [apiKey |-> request.apiKey] >>
    IN  IF request.provider \notin Providers
        THEN Finish(tk, ErrorResponse("Unknown API provider"))
        ELSE IF request.provider = "portkey"
             THEN IF EstimatedTokens(request.messages) > LargeContextThreshold
                  THEN handleExtremelyLargeContext(tk, cfg)
                  ELSE callLargeContextAPI(tk, "large", request.messages, cfg)
             ELSE callAPI(tk, "direct", request.messages, cfg)

\* background.ts:208-225  callLLMAPI up to its first await
CallLLMAPIBegin(tk) ==
    IF CacheReadable(tk.request)
    THEN [tk EXCEPT !.pc = "cache_get", !.reads = @ + 1]
    ELSE Dispatch(tk)

\* mutant: the direct route stores the outcome of a failed call as well
AfterCallCachesFailure(tk, ok, summary, msg, cfg) ==
    LET failed == [tk EXCEPT !.callFailed = TRUE]
    IN
    CASE tk.kind = "direct" ->
           IF ok
           THEN IF CacheWritable(tk.request, Response(summary))
                THEN [tk EXCEPT !.pc = "cache_set", !.ret = Response(summary)]
                ELSE Finish(tk, Response(summary))
           ELSE IF tk.request.url # ""
                THEN [failed EXCEPT !.pc = "cache_set", !.ret = ErrorResponse(msg)]
                ELSE Finish(failed, ErrorResponse(msg))
      [] tk.kind = "large" ->
           IF ok THEN Finish(tk, Response(summary))
           ELSE Finish(failed, ErrorResponse(msg))
      [] tk.kind = "synopsis" ->
           IF ok THEN ChunkCall([tk EXCEPT !.conversationSummary = summary,
                                           !.condensed = tk.i - 1], cfg)
           ELSE ChunkCall(failed, cfg)
      [] OTHER ->
           IF ok
           THEN LET done == [tk EXCEPT !.processedLen =
                                AppendProcessed(@, tk.chunks[tk.i])]
                IN  IF tk.i = Len(tk.chunks)
                    THEN Finish(done, Response(summary))
                    ELSE LoopTop([done EXCEPT !.i = @ + 1], cfg)
           ELSE Finish(failed, ErrorResponse(msg))

\* mutant: a failed chunk is skipped and the loop goes on with the next one
AfterCallSkipsFailedChunk(tk, ok, summary, msg, cfg) ==
    LET failed == [tk EXCEPT !.callFailed = TRUE]
    IN
    CASE tk.kind = "direct" ->
           IF ok
           THEN IF CacheWritable(tk.request, Response(summary))
                THEN [tk EXCEPT !.pc = "cache_set", !.ret = Response(summary)]
                ELSE Finish(tk, Response(summary))
           ELSE Finish(failed, ErrorResponse(msg))
      [] tk.kind = "large" ->
           IF ok THEN Finish(tk, Response(summary))
           ELSE Finish(failed, ErrorResponse(msg))
      [] tk.kind = "synopsis" ->
           IF ok THEN ChunkCall([tk EXCEPT !.conversationSummary = summary,
                                           !.condensed = tk.i - 1], cfg)
           ELSE ChunkCall(failed, cfg)
      [] OTHER ->
           LET done == IF ok
                       THEN [tk EXCEPT !.processedLen =
                                AppendProcessed(@, tk.chunks[tk.i])]
                       ELSE failed
           IN  IF tk.i = Len(tk.chunks)
               THEN Finish(done, IF ok THEN Response(summary)
                                 ELSE ErrorResponse(msg))
               ELSE LoopTop([done EXCEPT !.i = @ + 1], cfg)

\* mutant: the response to the first chunk is returned as the result
AfterCallReturnsFirstChunk(tk, ok, summary, msg, cfg) ==
    LET failed == [tk EXCEPT !.callFailed = TRUE]
    IN
    CASE tk.kind = "direct" ->
           IF ok
           THEN IF CacheWritable(tk.request, Response(summary))
                THEN [tk EXCEPT !.pc = "cache_set", !.ret = Response(summary)]
                ELSE Finish(tk, Response(summary))
           ELSE Finish(failed, ErrorResponse(msg))
      [] tk.kind = "large" ->
           IF ok THEN Finish(tk, Response(summary))
           ELSE Finish(failed, ErrorResponse(msg))
      [] tk.kind = "synopsis" ->
           IF ok THEN ChunkCall([tk EXCEPT !.conversationSummary = summary,
                                           !.condensed = tk.i - 1], cfg)
           ELSE ChunkCall(failed, cfg)
      [] OTHER ->
           IF ok
           THEN Finish([tk EXCEPT !.processedLen =
                            AppendProcessed(@, tk.chunks[tk.i])],
                       Response(summary))
           ELSE Finish(failed, ErrorResponse(msg))

\* mutant: a failed synopsis call ends the chunked operation
AfterCallAbortsOnSynopsisFailure(tk, ok, summary, msg, cfg) ==
    LET failed == [tk EXCEPT !.callFailed = TRUE]
    IN
    CASE tk.kind = "direct" ->
           IF ok
           THEN IF CacheWritable(tk.request, Response(summary))
                THEN [tk EXCEPT !.pc = "cache_set", !.ret = Response(summary)]
                ELSE Finish(tk, Response(summary))
           ELSE Finish(failed, ErrorResponse(msg))
      [] tk.kind = "large" ->
           IF ok THEN Finish(tk, Response(summary))
           ELSE Finish(failed, ErrorResponse(msg))
      [] tk.kind = "synopsis" ->
           IF ok THEN ChunkCall([tk EXCEPT !.conversationSummary = summary,
                                           !.condensed = tk.i - 1], cfg)
           ELSE Finish(failed, ErrorResponse(msg))
      [] OTHER ->
           IF ok
           THEN LET done == [tk EXCEPT !.processedLen =
                                AppendProcessed(@, tk.chunks[tk.i])]
                IN  IF tk.i = Len(tk.chunks)
                    THEN Finish(done, Response(summary))
                    ELSE LoopTop([done EXCEPT !.i = @ + 1], cfg)
           ELSE Finish(failed, ErrorResponse(msg))

\* the code that resumes after a provider call of kind tk.kind has returned
\* (ok, with summary) or thrown (msg): background.ts:259-266 (direct),
\* 252-254 (large), 363-370 (synopsis), 384-395 (chunk), 267-273 (catch)
AfterCall(tk, ok, summary, msg, cfg) ==
    LET failed == [tk EXCEPT !.callFailed = TRUE]
    IN
    CASE tk.kind = "direct" ->
           IF ok
           THEN IF CacheWritable(tk.request, Response(summary))
                THEN [tk EXCEPT !.pc = "cache_set", !.ret = Response(summary)]
                ELSE Finish(tk, Response(summary))
           ELSE Finish(failed, ErrorResponse(msg))
      [] tk.kind = "large" ->
           IF ok THEN Finish(tk, Response(summary))
           ELSE Finish(failed, ErrorResponse(msg))
      [] tk.kind = "synopsis" ->
           IF ok THEN ChunkCall([tk EXCEPT !.conversationSummary = summary,
                                           !.condensed = tk.i - 1], cfg)
           ELSE ChunkCall(failed, cfg)
      [] OTHER ->
           IF ok
           THEN LET done == [tk EXCEPT !.processedLen =
                                AppendProcessed(@, tk.chunks[tk.i])]
                IN  IF tk.i = Len(tk.chunks)
                    THEN Finish(done, Response(summary))
                    ELSE LoopTop([done EXCEPT !.i = @ + 1], cfg)
           ELSE Finish(failed, ErrorResponse(msg))

\* mutant: the status is set to completed but the result is not stored
SettleRequestNoResult(tk) ==
    [tk EXCEPT !.pc = "done", !.status = "completed"]

\* mutant: the request is settled a second time, by the catch handler
SettleRequestTwice(tk) ==
    IF tk.status = "processing"
    THEN [tk EXCEPT !.status = "completed", !.result = << tk.ret >>]
    ELSE [tk EXCEPT !.pc = "done", !.status = "error", !.result = << >>,
                    !.error = << "Unknown error" >>]

\* background.ts:177-184  the terminal transition of processLLMRequest
SettleRequest(tk) ==
    IF ~tk.threw
    THEN [tk EXCEPT !.pc = "done", !.status = "completed", !.result = << tk.ret >>]
    ELSE [tk EXCEPT !.pc = "done", !.status = "error", !.error = << tk.ret.error >>]

\* mutant: the request is never marked as processing
BeginProcessingSkipped(tk) == tk

\* background.ts:172  pending -> processing
BeginProcessing(tk) == [tk EXCEPT !.status = "processing"]

(***************************************************************************)
(* Actions                                                                 *)
(***************************************************************************)
\* the continuation of tk is already queued as a microtask: the promise it
\* awaits is settled (callLLMAPI has returned, or callAPI has rejected)
Queued(tk) == tk.pc = "settle" \/ (tk.pc = "api" /\ tk.attempt = "rejected")

\* who holds the thread once request t has got to tk
Holder(tk, t) == IF Queued(tk) THEN t ELSE 0

\* background.ts:191-193  generateRequestId: an id not used before
IdSequence == << "r1", "r2", "r3" >>
generateRequestId == IdSequence[ntasks + 1]

\* mutant: the map keeps one object for all the ids it holds
SetPendingShared(map, id, t) ==
    [k \in RequestIds |-> IF k = id \/ map[k] # 0 THEN t ELSE map[k]]

\* background.ts:150,173,179  this.pendingRequests.set(id, pendingRequest)
SetPending(map, id, t) == [map EXCEPT ![id] = t]

\* history: what a cache lookup that is still to be answered may count on is
\* void once the cache is written, cleared or the clock moves
Forget(tks) ==
    [t \in Tasks |->
        IF tks[t].pc \in {"created", "cache_get"}
        THEN [tks[t] EXCEPT !.expected = ""]
        ELSE tks[t]]

\* background.ts:141-150  startLLMRequest up to the call of processLLMRequest.
\* A caller-supplied id may repeat an earlier one.
StartLLMRequest(id, request) ==
    /\ running = 0
    /\ ntasks < MaxTasks
    /\ LET t == ntasks + 1
       IN  /\ tasks' = [tasks EXCEPT ![t] =
                  [IdleTask EXCEPT !.pc = "created", !.id = id,
                                   !.request = request, !.status = "pending",
                                   !.timestamp = now,
                                   !.expected =
                                       IF CacheReadable(request)
                                       THEN lastSummary[CacheKeyOf(request)]
                                       ELSE ""]]
           /\ pendingRequests' = SetPending(pendingRequests, id, t)
           /\ ntasks' = t
           /\ running' = t
    /\ UNCHANGED << fnInput, fnOutput >>
    /\ UNCHANGED << conversationContexts, config, cache, now, ticks, lastSummary >>

\* background.ts:166-176 then 208-259 then 163: processLLMRequest runs inside
\* startLLMRequest until callLLMAPI reaches its first await; startLLMRequest
\* then returns the id
ProcessLLMRequest(t) ==
    /\ running = t
    /\ tasks[t].pc = "created"
    /\ LET tk == BeginProcessing(tasks[t])
           request == tk.request
           next == CallLLMAPIBegin(tk)
       IN  /\ tasks' = [tasks EXCEPT ![t] = [next EXCEPT !.returnedAt = next.status]]
           /\ pendingRequests' = SetPending(pendingRequests, tk.id, t)
           /\ running' = Holder(next, t)
           /\ IF CacheReadable(request)
              THEN UNCHANGED << conversationContexts, config >>
              ELSE /\ conversationContexts' = StoreContext(conversationContexts, request)
                   /\ config' = InitializeApiProvider(config, request)
    /\ UNCHANGED << fnInput, fnOutput >>
    /\ UNCHANGED << ntasks, cache, now, ticks, lastSummary >>

\* background.ts:215-225  SummaryCache.get has answered
CacheGetReturn(t) ==
    /\ running = 0
    /\ tasks[t].pc = "cache_get"
    /\ LET tk == tasks[t]
           request == tk.request
           cachedSummary == CacheGet(cache, CacheKeyOf(request), now)
       IN  IF cachedSummary # ""
           THEN /\ tasks' = [tasks EXCEPT ![t] =
                       [tk EXCEPT !.pc = "cache_entry",
                                  !.cachedSummary = cachedSummary]]
                /\ running' = 0
                /\ UNCHANGED << conversationContexts, config >>
           ELSE /\ tasks' = [tasks EXCEPT ![t] = Dispatch(tk)]
                /\ running' = Holder(Dispatch(tk), t)
                /\ conversationContexts' = StoreContext(conversationContexts, request)
                /\ config' = InitializeApiProvider(config, request)
    /\ UNCHANGED << fnInput, fnOutput >>
    /\ UNCHANGED << pendingRequests, ntasks, cache, now, ticks, lastSummary >>

\* background.ts:218-223,276-286  getCacheEntry has answered: reads the stored
\* entry itself, without the expiry test of SummaryCache.get
CacheEntryReturn(t) ==
    /\ running = 0
    /\ tasks[t].pc = "cache_entry"
    /\ LET tk == tasks[t]
           cacheEntry == cache[CacheKeyOf(tk.request)]
           cachedAt == IF cacheEntry = NoEntry THEN -1 ELSE cacheEntry[1].timestamp
       IN  tasks' = [tasks EXCEPT ![t] =
               Finish(tk, CachedResponse(tk.cachedSummary, cachedAt))]
    /\ running' = t
    /\ UNCHANGED << fnInput, fnOutput >>
    /\ UNCHANGED << pendingRequests, ntasks, conversationContexts,
                    config, cache, now, ticks, lastSummary >>

\* history: the callAPI awaited by tk has thrown msg; the failure of a synopsis
\* call is caught by the loop (background.ts:364-366), any other reaches the
\* catch of callLLMAPI
Thrown(tk, msg) ==
    [tk EXCEPT !.flawed = TRUE,
               !.failure = IF tk.kind = "synopsis" THEN @ ELSE msg,
               !.missed = IF tk.kind = "synopsis" THEN tk.i ELSE @]

\* history: the callAPI awaited by tk has ended with outcome o; answers holds
\* the responses to the calls other than synopsis calls, in order, obtained
\* the latest response to a synopsis call, missed the chunk index of the
\* latest synopsis call that failed
Answered(tk, o) ==
    IF ~AttemptOk(o) THEN Thrown(tk, AttemptError(o))
    ELSE IF tk.kind # "synopsis"
         THEN [tk EXCEPT !.answers = Append(@, AttemptSummary(o)),
                         !.malformed = (o = "malformed")]
         ELSE [tk EXCEPT !.obtained = << AttemptSummary(o) >>]

\* portkey.ts:78-90,119-153  openai.ts:55-98: one attempt to reach the provider
\* has ended with outcome o.  A failed Portkey SDK attempt is followed by the
\* direct call, which reads the shared configuration again.
ProviderReturn(t, o) ==
    /\ running = 0
    /\ tasks[t].pc = "api"
    /\ tasks[t].attempt \in {"sdk", "fetch", "fallback"}
    /\ LET tk == tasks[t]
           cfg == config["portkey"]
           next == IF tk.attempt = "sdk" /\ ~AttemptOk(o)
                   THEN [tk EXCEPT !.attempt = "fallback", !.key = cfg[1].apiKey,
                                   !.calls = @ + 1, !.attempts = @ + 1,
                                   !.flawed = TRUE]
                   ELSE AfterCall(Answered(tk, o), AttemptOk(o), AttemptSummary(o),
                                  AttemptError(o), cfg)
       IN  /\ tasks' = [tasks EXCEPT ![t] = next]
           /\ running' = Holder(next, t)
    /\ UNCHANGED << fnInput, fnOutput >>
    /\ UNCHANGED << pendingRequests, ntasks, conversationContexts,
                    config, cache, now, ticks, lastSummary >>

\* types.ts:79-86  the promise of a callAPI whose validateConfig threw is
\* rejected: the awaiting code resumes with that error
ConfigRejected(t) ==
    /\ running = t
    /\ tasks[t].pc = "api"
    /\ tasks[t].attempt = "rejected"
    /\ LET next == AfterCall(Thrown(tasks[t], tasks[t].reject), FALSE, "",
                             tasks[t].reject, config["portkey"])
       IN  /\ tasks' = [tasks EXCEPT ![t] = next]
           /\ running' = Holder(next, t)
    /\ UNCHANGED << fnInput, fnOutput >>
    /\ UNCHANGED << pendingRequests, ntasks, conversationContexts,
                    config, cache, now, ticks, lastSummary >>

\* background.ts:262-266  SummaryCache.set has been carried out
CacheSetReturn(t) ==
    /\ running = 0
    /\ tasks[t].pc = "cache_set"
    /\ LET tk == tasks[t]
           request == tk.request
       IN  /\ cache' = CacheSet(cache, CacheKeyOf(request), tk.ret.summary,
                                request.provider, now)
           /\ tasks' = Forget([tasks EXCEPT ![t] =
                  Finish([tk EXCEPT !.writes = @ + 1,
                                    !.evicted = (Evict(cache) # cache)],
                         tk.ret)])
    /\ running' = t
    /\ lastSummary' = [k \in CacheKeys |-> ""]
    /\ UNCHANGED << fnInput, fnOutput >>
    /\ UNCHANGED << pendingRequests, ntasks, conversationContexts,
                    config, now, ticks >>

\* mutant: a failed read of the store rejects the promise of SummaryCache.get
CacheGetFailedThrows(tk) ==
    Finish([tk EXCEPT !.getFailed = TRUE], ErrorResponse("Storage unavailable"))

\* SummaryCache.get when the read of the persistent store fails: the failure
\* is logged and the entry counts as absent, callLLMAPI goes on at
\* background.ts:227
CacheGetFailed(tk) == Dispatch([tk EXCEPT !.getFailed = TRUE])

\* SummaryCache.set when the persistent store fails: the failure is logged
\* and nothing is stored, callLLMAPI goes on at background.ts:266
CacheSetFailed(tk) == Finish([tk EXCEPT !.setFailed = TRUE], tk.ret)

\* background.ts:215  SummaryCache.get has met a failing store
CacheGetFails(t) ==
    /\ running = 0
    /\ tasks[t].pc = "cache_get"
    /\ LET next == CacheGetFailed(tasks[t])
       IN  /\ tasks' = [tasks EXCEPT ![t] = next]
           /\ running' = Holder(next, t)
           /\ conversationContexts' =
                  StoreContext(conversationContexts, tasks[t].request)
           /\ config' = InitializeApiProvider(config, tasks[t].request)
    /\ UNCHANGED << fnInput, fnOutput >>
    /\ UNCHANGED << pendingRequests, ntasks, cache, now, ticks, lastSummary >>

\* background.ts:263  SummaryCache.set has met a failing store
CacheSetFails(t) ==
    /\ running = 0
    /\ tasks[t].pc = "cache_set"
    /\ tasks' = [tasks EXCEPT ![t] = CacheSetFailed(tasks[t])]
    /\ running' = t
    /\ UNCHANGED << fnInput, fnOutput >>
    /\ UNCHANGED << pendingRequests, ntasks, conversationContexts, config,
                    cache, now, ticks, lastSummary >>

\* background.ts:176-184  processLLMRequest resumes after `await callLLMAPI`
Settle(t) ==
    /\ running = t
    /\ tasks[t].pc = "settle"
    /\ tasks' = [tasks EXCEPT ![t] = SettleRequest(tasks[t])]
    /\ pendingRequests' = SetPending(pendingRequests, tasks[t].id, t)
    /\ running' = Holder(SettleRequest(tasks[t]), t)
    /\ lastSummary' =
           IF CacheReadable(tasks[t].request) /\ tasks[t].ret.error = ""
           THEN [lastSummary EXCEPT ![CacheKeyOf(tasks[t].request)] =
                     tasks[t].ret.summary]
           ELSE lastSummary
    /\ UNCHANGED << fnInput, fnOutput >>
    /\ UNCHANGED << ntasks, conversationContexts, config, cache, now, ticks >>

\* mutant: the cleanup spares the requests that are still being processed
cleanupOldRequestsSparesProcessing ==
    /\ running = 0
    /\ pendingRequests' =
           [id \in RequestIds |->
               IF pendingRequests[id] # 0
                  /\ now - tasks[pendingRequests[id]].timestamp > maxAge
                  /\ tasks[pendingRequests[id]].status # "processing"
               THEN 0
               ELSE pendingRequests[id]]
    /\ UNCHANGED << tasks, ntasks, running, conversationContexts, config, cache,
                    now, ticks, lastSummary, fnInput, fnOutput >>

\* background.ts:64-73
cleanupOldRequests ==
    /\ running = 0
    /\ pendingRequests' =
           [id \in RequestIds |->
               IF pendingRequests[id] # 0
                  /\ now - tasks[pendingRequests[id]].timestamp > maxAge
               THEN 0
               ELSE pendingRequests[id]]
    /\ UNCHANGED << fnInput, fnOutput >>
    /\ UNCHANGED << tasks, ntasks, running, conversationContexts, config, cache,
                    now, ticks, lastSummary >>

\* background.ts:320-322  clearCache -> SummaryCache.clear
clearCache ==
    /\ running = 0
    /\ cache' = [k \in CacheKeys |-> NoEntry]
    /\ lastSummary' = [k \in CacheKeys |-> ""]
    /\ tasks' = Forget(tasks)
    /\ UNCHANGED << fnInput, fnOutput >>
    /\ UNCHANGED << pendingRequests, ntasks, running, conversationContexts,
                    config, now, ticks >>

\* history: the stored context of the requests of these tabs is cleared
Cleared(tks, tabs) ==
    [t \in Tasks |->
        IF tks[t].pc # "none" /\ tks[t].request.tabId \in tabs
        THEN [tks[t] EXCEPT !.ctx = "cleared"]
        ELSE tks[t]]

\* background.ts:457-460
clearConversationContext(tabId) ==
    /\ running = 0
    /\ conversationContexts' = [conversationContexts EXCEPT ![tabId] = << >>]
    /\ tasks' = Cleared(tasks, {tabId})
    /\ UNCHANGED << fnInput, fnOutput >>
    /\ UNCHANGED << pendingRequests, ntasks, running, config, cache, now, ticks,
                    lastSummary >>

\* background.ts:462-464
clearAllConversationContexts ==
    /\ running = 0
    /\ conversationContexts' = [tab \in TabIds |-> << >>]
    /\ tasks' = Cleared(tasks, TabIds)
    /\ UNCHANGED << fnInput, fnOutput >>
    /\ UNCHANGED << pendingRequests, ntasks, running, config, cache, now, ticks,
                    lastSummary >>

\* background.ts:452-455  getConversationContext: << >> stands for null
getConversationContext(tabId) == conversationContexts[tabId]

\* the clock Date.now() reads moves on by d milliseconds
Tick(d) ==
    /\ running = 0
    /\ ticks < MaxTicks
    /\ now' = now + d
    /\ ticks' = ticks + 1
    /\ lastSummary' = [k \in CacheKeys |-> ""]
    /\ tasks' = Forget(tasks)
    /\ UNCHANGED << fnInput, fnOutput >>
    /\ UNCHANGED << pendingRequests, ntasks, running, conversationContexts,
                    config, cache >>

\* one step of request t, the provider answering with one of `outcomes`
Step(t, outcomes) ==
    \/ ProcessLLMRequest(t)
    \/ CacheGetReturn(t)
    \/ CacheEntryReturn(t)
    \/ \E o \in outcomes : ProviderReturn(t, o)
    \/ ConfigRejected(t)
    \/ CacheSetReturn(t)
    \/ Settle(t)

\* what happens besides submissions
Background(steps, outcomes) ==
    \/ \E t \in Tasks : Step(t, outcomes)
    \/ cleanupOldRequests
    \/ clearCache
    \/ \E d \in steps : Tick(d)

(***************************************************************************)
(* Inputs                                                                  *)
(***************************************************************************)
Single == << Msg("user", "a", 100) >>
SystemOnly == << Msg("system", "s", 100) >>
Chat == << Msg("user", "a", 100), Msg("assistant", "b", 100), Msg("user", "c", 100) >>
\* estimated at 100001 tokens: one chunk
HugeSingle == << Msg("user", "h", 400004) >>
\* estimated at 125000 tokens: two chunks
HugeChat == << Msg("user", "p", 250000), Msg("assistant", "q", 250000) >>

\* requests of the lifecycle specification: every provider route, with and
\* without a key, cacheable and not, and an unknown provider without content-key
LifecycleRequests ==
    { Request(m, p, k, "u1", "english", FALSE, NoTab) :
        m \in {Single, HugeChat}, p \in {"claude", "portkey"}, k \in {"", "k1"} }
    \cup { Request(Single, "bogus", "k1", "", "english", FALSE, NoTab) }

SuppliedIds == {"r1", "r2"}
\* one advance of the clock carries a request past the retention window
LifecycleTicks == {maxAge + 1}
LifecycleOutcomes == {"X", "http429"}

Next ==
    \/ \E id \in SuppliedIds, request \in LifecycleRequests :
           StartLLMRequest(id, request)
    \/ Background(LifecycleTicks, LifecycleOutcomes)

Spec == Init /\ [][Next]_vars

\* requests of the liveness specification: the chunked route, the rejected
\* configuration, the cached route and the unknown provider
LiveRequests ==
    { Request(HugeChat, "portkey", "k1", "u1", "english", FALSE, NoTab),
      Request(HugeChat, "portkey", "", "u1", "english", FALSE, NoTab),
      Request(Single, "claude", "k1", "u1", "english", FALSE, NoTab),
      Request(Single, "bogus", "k1", "", "english", FALSE, NoTab) }

LiveNext ==
    \/ \E request \in LiveRequests : StartLLMRequest(generateRequestId, request)
    \/ Background(LifecycleTicks, LifecycleOutcomes)

\* every step of a started request is eventually taken: the provider and the
\* cache answer or fail, and a settled promise resumes its awaiter
FairSpec ==
    /\ Init /\ [][LiveNext]_vars
    /\ \A t \in Tasks : WF_vars(Step(t, LifecycleOutcomes))

\* requests of the cache specification: single-message summarization with and
\* without content-key and force-refresh on both routes, a second key, and
\* the message sequences that are not one user message
CacheRequests ==
    { Request(Single, p, "k1", u, "english", f, NoTab) :
        p \in {"claude", "portkey"}, u \in {"", "u1"}, f \in BOOLEAN }
    \cup { Request(m, "claude", "k1", "u1", "english", FALSE, NoTab) :
             m \in {<< >>, SystemOnly, Chat} }
    \cup { Request(Single, "openai", "k1", "u1", "chinese", FALSE, NoTab),
           Request(Single, "openrouter", "k1", "u2", "english", FALSE, NoTab),
           Request(Single, "claude", "", "u1", "english", TRUE, NoTab),
           Request(HugeChat, "portkey", "k1", "u1", "english", FALSE, NoTab),
           Request(HugeSingle, "portkey", "k1", "u1", "english", FALSE, NoTab) }

\* one advance of the clock carries a cache entry past its expiry
CacheTicks == {CacheExpiryMs + 1}
CacheOutcomes == {"X", "Y", "http429"}

CacheNext ==
    \/ \E request \in CacheRequests : StartLLMRequest(generateRequestId, request)
    \/ Background(CacheTicks, CacheOutcomes)

CacheSpec == Init /\ [][CacheNext]_vars

\* requests of the best-effort specification: cacheable summarization with
\* and without force-refresh, and one without an API key
BestEffortRequests ==
    { Request(Single, "claude", "k1", "u1", "english", f, NoTab) : f \in BOOLEAN }
    \cup { Request(Single, "openai", "", "u1", "english", FALSE, NoTab) }

\* the cache specification with a persistent store that may fail on any
\* read or write
BestEffortNext ==
    \/ \E request \in BestEffortRequests :
           StartLLMRequest(generateRequestId, request)
    \/ Background(CacheTicks, CacheOutcomes)
    \/ \E t \in Tasks : CacheGetFails(t) \/ CacheSetFails(t)

BestEffortSpec == Init /\ [][BestEffortNext]_vars

\* requests of the adapter specification: one summarization per adapter,
\* with a content-key, and one without an API key
AdapterRequests ==
    { Request(Single, p, "k1", "u1", "english", FALSE, NoTab) : p \in Providers }
    \cup { Request(Single, "claude", "", "", "english", FALSE, NoTab) }

\* a provider answers with a summary, with a 2xx body that lacks the summary
\* content, or with a 429
AdapterOutcomes == {"X", "malformed", "http429"}

AdapterNext ==
    \/ \E request \in AdapterRequests :
           StartLLMRequest(generateRequestId, request)
    \/ Background(CacheTicks, AdapterOutcomes)

AdapterSpec == Init /\ [][AdapterNext]_vars

\* requests of the context specification: a summarization and a chat of tab
\* 1, the first with a content-key, and a request of tab 2 without API key
ContextRequests ==
    { Request(Single, "claude", "k1", "u1", "english", FALSE, 1),
      Request(Chat, "claude", "k1", "", "english", FALSE, 1),
      Request(SystemOnly, "claude", "", "", "english", FALSE, 2) }

ContextNext ==
    \/ \E request \in ContextRequests :
           StartLLMRequest(generateRequestId, request)
    \/ \E t \in Tasks : Step(t, LifecycleOutcomes)
    \/ \E tabId \in TabIds : clearConversationContext(tabId)
    \/ clearAllConversationContexts

ContextSpec == Init /\ [][ContextNext]_vars

\* stores left behind by earlier runs of the process: at most CacheMaxSize
\* entries, written one or two milliseconds before this run began
EarlierEntries ==
    { << [summary |-> "X", provider |-> "openai", timestamp |-> -age] >> :
        age \in 1..2 }

\* a BackgroundService just constructed over such a store
CapacityInit ==
    /\ pendingRequests = [id \in RequestIds |-> 0]
    /\ tasks = [t \in Tasks |-> IdleTask]
    /\ ntasks = 0
    /\ running = 0
    /\ conversationContexts = [tab \in TabIds |-> << >>]
    /\ config = [p \in Providers |-> << >>]
    /\ cache \in [CacheKeys -> {NoEntry} \cup EarlierEntries]
    /\ CacheCount(cache) <= CacheMaxSize
    /\ now = 0
    /\ ticks = 0
    /\ lastSummary = [k \in CacheKeys |-> ""]
    /\ fnInput = << >>
    /\ fnOutput = NoOutput

\* requests of the capacity specification: summarizations of every key
CapacityRequests ==
    { Request(Single, "claude", "k1", u, l, f, NoTab) :
        u \in CacheUrls, l \in Languages, f \in BOOLEAN }

CapacityNext ==
    \/ \E request \in CapacityRequests :
           StartLLMRequest(generateRequestId, request)
    \/ \E t \in Tasks :
           \/ ProcessLLMRequest(t)
           \/ CacheGetReturn(t)
           \/ CacheEntryReturn(t)
           \/ \E o \in LifecycleOutcomes : ProviderReturn(t, o)
           \/ CacheSetReturn(t)
           \/ Settle(t)
    \/ \E d \in CacheTicks : Tick(d)

CapacitySpec == CapacityInit /\ [][CapacityNext]_vars

\* estimated at 187500 tokens: three chunks
HugeThree ==
    << Msg("user", "p", 250000), Msg("assistant", "q", 250000),
       Msg("user", "r", 250000) >>

\* requests of the chunked specification: one, two and three chunks on the
\* Portkey route, the first without an API key
ChunkedRequests ==
    { Request(HugeSingle, "portkey", "", "", "english", FALSE, NoTab),
      Request(HugeChat, "portkey", "k1", "", "english", FALSE, NoTab),
      Request(HugeThree, "portkey", "k1", "", "english", FALSE, NoTab) }

ChunkedOutcomes == {"X", "Y", "http429"}

\* the steps of a request on the Portkey route, which consults no cache
ChunkedNext ==
    \/ \E request \in ChunkedRequests :
           StartLLMRequest(generateRequestId, request)
    \/ \E t \in Tasks :
           \/ ProcessLLMRequest(t)
           \/ \E o \in ChunkedOutcomes : ProviderReturn(t, o)
           \/ ConfigRejected(t)
           \/ Settle(t)

ChunkedSpec == Init /\ [][ChunkedNext]_vars

(***************************************************************************)
(* The pure functions of the chunker, applied to bounded message lists     *)
(***************************************************************************)
\* message sizes around the chunk budget of 50000 characters and around the
\* adapter's budget of 667 tokens
ChunkerMessages ==
    { Msg("system", "s", 100), Msg("user", "a", 20000),
      Msg("assistant", "b", 30000), Msg("user", "c", 50001),
      Msg("user", "d", 0), Msg("assistant", "e", 100) }

ChunkerInputs == UNION { [1..k -> ChunkerMessages] : k \in 0..MaxLen }

ChunkerInit ==
    /\ Constructed
    /\ fnInput \in ChunkerInputs
    /\ fnOutput = NoOutput

\* background.ts:346  this.chunkLargeContext(messages)
ApplyChunkLargeContext ==
    /\ fnOutput = NoOutput
    /\ fnOutput' = [fn |-> "chunkLargeContext", arg |-> fnInput,
                    value |-> chunkLargeContext(fnInput)]
    /\ UNCHANGED << pendingRequests, tasks, ntasks, running, conversationContexts,
                    config, cache, now, ticks, lastSummary, fnInput >>

\* portkey.ts:239-242  callLargeContextAPI(messages): value is what callAPI
\* is given to send
ApplyCallLargeContextAPI ==
    /\ fnOutput = NoOutput
    /\ fnOutput' = [fn |-> "callLargeContextAPI", arg |-> fnInput,
                    value |-> processLargeContext(fnInput, DefaultMaxTokens)]
    /\ UNCHANGED << pendingRequests, tasks, ntasks, running, conversationContexts,
                    config, cache, now, ticks, lastSummary, fnInput >>

\* background.ts:370-379  the list as a chunk with the synopsis s before it
ApplyChunkWithSynopsis(s) ==
    /\ fnOutput = NoOutput
    /\ LET chunkWithSummary == integrateSummaryWithChunk(fnInput, s, "english")
       IN  fnOutput' = [fn |-> "chunkWithSynopsis", arg |-> chunkWithSummary,
                        value |-> processLargeContext(chunkWithSummary,
                                                      DefaultMaxTokens)]
    /\ UNCHANGED << pendingRequests, tasks, ntasks, running, conversationContexts,
                    config, cache, now, ticks, lastSummary, fnInput >>

ChunkerNext ==
    \/ ApplyChunkLargeContext
    \/ ApplyCallLargeContextAPI
    \/ \E s \in Summaries : ApplyChunkWithSynopsis(s)

ChunkerSpec == ChunkerInit /\ [][ChunkerNext]_vars

(***************************************************************************)
(* Request lifecycle                                                       *)
(***************************************************************************)
Started(t) == tasks[t].pc # "none"
Terminal(status) == status \in {"completed", "error"}
SubmissionsOf(id) == {t \in Tasks : Started(t) /\ tasks[t].id = id}
SubmittedOnce(id) == Cardinality(SubmissionsOf(id)) = 1
\* getRequestStatus (background.ts:187-189): the entry found under id, if any
Found(id) == pendingRequests[id] # 0
StatusOf(id) == tasks[pendingRequests[id]]

StatusMoves ==
    { << "pending", "processing" >>, << "processing", "completed" >>,
      << "processing", "error" >> }

\* C1: for an id submitted once, the entry is created in pending, is the object
\* stored under the id, has made no cache or provider call while pending, and
\* its status changes only pending -> processing -> completed | error.
C1_StatusPath ==
    [][\A t \in Tasks, id \in RequestIds :
          (Started(t)' /\ tasks'[t].id = id /\ SubmittedOnce(id)') =>
             /\ ~Started(t) => /\ tasks'[t].status = "pending"
                               /\ pendingRequests'[id] = t
             /\ tasks'[t].status = "pending" =>
                    tasks'[t].calls + tasks'[t].reads + tasks'[t].writes = 0
             /\ Found(id)' => pendingRequests'[id] = t
             /\ Started(t) =>
                    \/ tasks'[t].status = tasks[t].status
                    \/ << tasks[t].status, tasks'[t].status >> \in StatusMoves
      ]_vars

C1_Witness ==
    \E t \in Tasks :
        /\ SubmittedOnce(tasks[t].id)
        /\ tasks[t].status = "completed"
        /\ tasks[t].calls > 0
        /\ tasks[t].reads > 0

\* a failure was caught while the request was processed
ProcessingFailed(t) == tasks[t].pc = "done" /\ tasks[t].ret.error # ""

\* C2: a request whose processing failed ends in status error with a
\* non-empty error message.
C2_FailureEndsInError ==
    \A t \in Tasks :
        ProcessingFailed(t) =>
            /\ tasks[t].status = "error"
            /\ tasks[t].error # << >>
            /\ tasks[t].error[1] # ""

\* C3: result present iff completed, error message present iff error.
C3_ResultIffCompleted ==
    \A t \in Tasks :
        Started(t) =>
            /\ (tasks[t].result # << >>) <=> (tasks[t].status = "completed")
            /\ (tasks[t].error # << >>) <=> (tasks[t].status = "error")

C3_Witness ==
    \E t \in Tasks :
        /\ tasks[t].status = "completed"
        /\ tasks[t].result # << >>
        /\ tasks[t].error = << >>

\* C4: for an id submitted once, once the entry found under it is completed or
\* error, every later entry found under it has the same status, result and
\* error message.
C4_TerminalAbsorbing ==
    [][\A id \in RequestIds :
          (/\ SubmittedOnce(id)'
           /\ Found(id) /\ Terminal(StatusOf(id).status)
           /\ Found(id)') =>
             /\ StatusOf(id)'.status = StatusOf(id).status
             /\ StatusOf(id)'.result = StatusOf(id).result
             /\ StatusOf(id)'.error = StatusOf(id).error
      ]_vars

C4_Witness ==
    \E id \in RequestIds :
        /\ SubmittedOnce(id) /\ Found(id)
        /\ Terminal(StatusOf(id).status)
        /\ now - StatusOf(id).timestamp > maxAge

\* C5: under FairSpec every started request reaches completed or error.
C5_ReachesTerminal ==
    \A t \in Tasks : Started(t) ~> Terminal(tasks[t].status)

C5_Witness ==
    \E t \in Tasks :
        /\ Terminal(tasks[t].status)
        /\ Len(tasks[t].chunks) = 2
        /\ tasks[t].i = 2

OneUserMessage(request) ==
    Len(request.messages) = 1 /\ request.messages[1].role = "user"

\* tasks[t].expected is the summary of the last cache-eligible request of the
\* same key and language that had completed successfully when t was submitted,
\* with no cache write, clear or clock advance between that completion and
\* the answer to the lookup of t
ReusesCache(t) ==
    /\ tasks[t].calls = 0
    /\ tasks[t].pc \in {"created", "cache_get", "cache_entry", "settle", "done"}
    /\ tasks[t].pc \in {"settle", "done"} =>
          /\ tasks[t].ret.summary = tasks[t].expected
          /\ tasks[t].ret.fromCache

\* C7: after a cache-eligible request completed successfully with summary X,
\* a later cache-eligible request of the same content-key and language
\* returns X from the cache and makes no provider call, whatever the provider.
C7_CacheReuse ==
    \A t \in Tasks : tasks[t].expected # "" => ReusesCache(t)

\* C8: no SummaryCache.set is performed for a request whose messages are not
\* exactly one user message.
C8_NoWriteUnlessOneUserMessage ==
    \A t \in Tasks :
        (Started(t) /\ ~OneUserMessage(tasks[t].request)) => tasks[t].writes = 0

C8_Witness ==
    \E t \in Tasks :
        /\ tasks[t].pc = "done"
        /\ tasks[t].request.messages = Chat
        /\ tasks[t].request.url # ""
        /\ tasks[t].calls > 0
        /\ tasks[t].ret.error = ""
        /\ tasks[t].writes = 0

C10_FailureLeavesCache ==
    [][\A t \in Tasks :
          tasks'[t].callFailed =>
             /\ tasks'[t].writes = 0
             /\ tasks'[t] # tasks[t] => cache' = cache
      ]_vars

C10_Witness ==
    \E t \in Tasks :
        /\ tasks[t].pc = "done"
        /\ tasks[t].callFailed
        /\ tasks[t].ret.error # ""
        /\ tasks[t].request.url # ""
        /\ OneUserMessage(tasks[t].request)
        /\ cache[CacheKeyOf(tasks[t].request)] # NoEntry

(***************************************************************************)
(* Failures inside callLLMAPI                                              *)
(***************************************************************************)
\* callLLMAPI has returned to processLLMRequest
Returned(t) == tasks[t].pc \in {"settle", "done"}

CallFailure(t) ==
    \/ tasks[t].request.provider \notin Providers
    \/ tasks[t].request.apiKey = "" /\ ~tasks[t].ret.fromCache
    \/ tasks[t].failure # ""

\* C12: callLLMAPI never raises: it resolves to a result object, and when it
\* has failed that object has a non-empty error and an empty summary.
C12_NeverRaises ==
    \A t \in Tasks :
        Returned(t) =>
            /\ ~tasks[t].threw
            /\ tasks[t].ret.error # "" => tasks[t].ret.summary = ""
            /\ CallFailure(t) =>
                  /\ tasks[t].ret.error # ""
                  /\ tasks[t].ret.summary = ""
            /\ tasks[t].failure # "" => tasks[t].ret.error = tasks[t].failure

C12_Witness ==
    \E t \in Tasks, u \in Tasks :
        /\ tasks[t].pc = "done"
        /\ tasks[t].kind = "chunk" /\ tasks[t].i = 2
        /\ tasks[t].failure # ""
        /\ tasks[t].result = << ErrorResponse(tasks[t].failure) >>
        /\ tasks[u].pc = "done"
        /\ tasks[u].request.provider \notin Providers
        /\ tasks[u].ret.error # ""

(***************************************************************************)
(* chunkLargeContext                                                       *)
(***************************************************************************)
RECURSIVE Flatten(_)
Flatten(chunks) ==
    IF chunks = << >> THEN << >> ELSE Head(chunks) \o Flatten(Tail(chunks))

Chunked == fnOutput.fn = "chunkLargeContext"

\* C13: the chunks returned by chunkLargeContext are non-empty and their
\* concatenation in order is the input list; an empty input gives no chunk.
C13_OrderPreservingPartition ==
    Chunked =>
        /\ \A k \in 1..Len(fnOutput.value) : fnOutput.value[k] # << >>
        /\ Flatten(fnOutput.value) = fnInput
        /\ fnInput = << >> => fnOutput.value = << >>

C13_Witness ==
    /\ Chunked
    /\ Len(fnInput) = 4
    /\ Len(fnOutput.value) = 2
    /\ Len(fnOutput.value[1]) = 3
    /\ \E k \in 1..4 : fnInput[k].len = 0

RECURSIVE IsSubsequence(_, _)
\* s can be had from w by leaving messages out
IsSubsequence(s, w) ==
    IF s = << >> THEN TRUE
    ELSE IF w = << >> THEN FALSE
    ELSE IF Head(s) = Head(w) THEN IsSubsequence(Tail(s), Tail(w))
    ELSE IsSubsequence(s, Tail(w))

\* C17: the messages callLargeContextAPI sends are a subsequence of the list
\* it was given, in the same order, and a leading system message of that
\* list is still the first message sent.
C17_OrderPreserved ==
    fnOutput.fn \in {"callLargeContextAPI", "chunkWithSynopsis"} =>
        /\ IsSubsequence(fnOutput.value, fnOutput.arg)
        /\ (fnOutput.arg # << >> /\ fnOutput.arg[1].role = "system") =>
              /\ fnOutput.value # << >>
              /\ fnOutput.value[1] = fnOutput.arg[1]

(***************************************************************************)
(* handleExtremelyLargeContext                                             *)
(***************************************************************************)
\* request t is in the chunk loop or has left it
InChunks(t) == tasks[t].chunks # << >>

\* the calls of a chunked operation over n chunks: chunk 1, synopsis, chunk 2,
\* synopsis, ..., chunk n; a synopsis call carries the index of the chunk it
\* precedes
ExpectedOrder(n) ==
    [k \in 1..(2 * n - 1) |->
        IF k % 2 = 1 THEN << "chunk", (k + 1) \div 2 >>
        ELSE << "synopsis", k \div 2 + 1 >>]

\* C15: while no provider call of a chunked operation has failed, its calls
\* are a prefix of chunk 1, synopsis, chunk 2, ..., chunk n, a chunk is sent
\* only when every chunk before it has been answered, and at the end there
\* were exactly n chunk calls and n-1 synopsis calls.
C15_CallOrder ==
    \A t \in Tasks :
        (InChunks(t) /\ ~tasks[t].flawed) =>
            LET n == Len(tasks[t].chunks)
                order == tasks[t].order
            IN  /\ Len(order) <= 2 * n - 1
                /\ order = SubSeq(ExpectedOrder(n), 1, Len(order))
                /\ tasks[t].calls = Len(order)
                /\ (tasks[t].pc = "api" /\ tasks[t].kind = "chunk") =>
                      Len(tasks[t].answers) = tasks[t].i - 1
                /\ Returned(t) =>
                      /\ order = ExpectedOrder(n)
                      /\ Len(tasks[t].answers) = n

C15_Witness ==
    \E t \in Tasks :
        /\ tasks[t].pc = "done"
        /\ ~tasks[t].flawed
        /\ Len(tasks[t].chunks) = 3
        /\ tasks[t].calls = 5
        /\ tasks[t].order = << << "chunk", 1 >>, << "synopsis", 2 >>,
                               << "chunk", 2 >>, << "synopsis", 3 >>,
                               << "chunk", 3 >> >>

\* C16: once the call for a chunk has failed, the chunked operation is over:
\* callLLMAPI has returned that failure with an empty summary, and the
\* request makes no further provider call.
C16_ChunkFailureAborts ==
    [][\A t \in Tasks :
          (InChunks(t)' /\ tasks'[t].failure # "") =>
             /\ Returned(t)'
             /\ tasks'[t].ret = ErrorResponse(tasks'[t].failure)
             /\ tasks'[t].failure # tasks[t].failure =>
                    /\ tasks'[t].calls = tasks[t].calls
                    /\ tasks'[t].order = tasks[t].order
                    /\ Len(tasks'[t].answers) = tasks[t].i - 1
             /\ tasks[t].failure # "" =>
                    /\ tasks'[t].calls = tasks[t].calls
                    /\ tasks'[t].order = tasks[t].order
                    /\ tasks'[t].ret = tasks[t].ret
      ]_vars

C16_Witness ==
    \E t \in Tasks :
        /\ tasks[t].pc = "done"
        /\ Len(tasks[t].chunks) = 3
        /\ tasks[t].i = 2
        /\ tasks[t].answers = << "X" >>
        /\ tasks[t].failure # ""
        /\ tasks[t].result = << ErrorResponse(tasks[t].failure) >>

\* C18: every chunk call and every synopsis call of a chunked operation
\* carries input estimated at no more than the threshold above which a
\* message sequence is chunked.
C18_BoundedProviderInput ==
    \A t \in Tasks :
        (InChunks(t) /\ tasks[t].pc = "api") =>
            EstimatedTokens(tasks[t].sent) <= LargeContextThreshold

\* C19: the result of a chunked operation that succeeded is the response to
\* its final chunk.
C19_FinalChunkResponse ==
    \A t \in Tasks :
        (InChunks(t) /\ Returned(t) /\ tasks[t].ret.error = "") =>
            /\ Len(tasks[t].answers) = Len(tasks[t].chunks)
            /\ tasks[t].ret = Response(tasks[t].answers[Len(tasks[t].chunks)])

C19_Witness ==
    \E t \in Tasks :
        /\ tasks[t].pc = "done"
        /\ Len(tasks[t].chunks) = 3
        /\ tasks[t].answers = << "X", "X", "Y" >>
        /\ tasks[t].conversationSummary = "X"
        /\ tasks[t].result = << Response("Y") >>

(***************************************************************************)
(* Attempts of one callAPI                                                 *)
(***************************************************************************)
\* C20: one invocation of callAPI makes at most one attempt to reach the
\* provider, whatever the adapter.
C20_SingleAttempt ==
    \A t \in Tasks : tasks[t].attempts <= 1

(***************************************************************************)
(* Requests side by side                                                   *)
(***************************************************************************)
\* the fields of the PendingRequest object (background.ts:26-33) of task tk
PendingRequestOf(tk) ==
    [id |-> tk.id, status |-> tk.status, result |-> tk.result,
     error |-> tk.error, timestamp |-> tk.timestamp]

\* what the request of task tk has come to by itself: the entry it read from
\* the cache, the failure of its own call, or the last answer to its own call
OwnOutcome(tk) ==
    IF tk.ret.fromCache THEN tk.cachedSummary # "" /\ tk.ret.summary = tk.cachedSummary
    ELSE IF tk.request.provider \notin Providers THEN tk.ret.error # ""
    ELSE IF tk.failure # "" THEN tk.ret = ErrorResponse(tk.failure)
    ELSE /\ tk.answers # << >>
         /\ tk.ret = Response(tk.answers[Len(tk.answers)])

\* C21: a step that changes the PendingRequest of one id leaves the entry
\* stored under every other id, and all its fields, as they were; and the
\* result recorded under an id submitted once is the outcome of its own
\* request.
C21_DistinctIdsDoNotInterfere ==
    [][\A t \in Tasks, u \in Tasks, b \in RequestIds :
          /\ (/\ Started(t)'
              /\ PendingRequestOf(tasks[t])' # PendingRequestOf(tasks[t])
              /\ tasks'[t].id # b
              /\ pendingRequests[b] = u /\ Started(u)) =>
                 /\ pendingRequests'[b] = u
                 /\ PendingRequestOf(tasks[u])' = PendingRequestOf(tasks[u])
          /\ (/\ SubmittedOnce(b)' /\ pendingRequests'[b] = t
              /\ tasks'[t].status = "completed") =>
                 /\ tasks'[t].result = << tasks'[t].ret >>
                 /\ OwnOutcome(tasks[t])'
      ]_vars

C21_Witness ==
    \E t \in Tasks, u \in Tasks :
        /\ tasks[t].id # tasks[u].id
        /\ pendingRequests[tasks[t].id] = t /\ pendingRequests[tasks[u].id] = u
        /\ tasks[t].status = "completed" /\ tasks[u].status = "completed"
        /\ tasks[t].request.provider = tasks[u].request.provider
        /\ tasks[t].result = << Response("X") >>
        /\ tasks[u].result # << >> /\ tasks[u].result[1].error # ""
        /\ tasks[u].failure # ""

(***************************************************************************)
(* Retention of PendingRequest entries                                     *)
(***************************************************************************)
\* the entry under id is older than the retention window
Overdue(id) ==
    Found(id) /\ now - StatusOf(id).timestamp > maxAge

\* a step of cleanupOldRequests that had something to do: the only step that
\* takes entries away from the map
CleanupStep ==
    /\ pendingRequests' # pendingRequests
    /\ tasks' = tasks /\ now' = now /\ cache' = cache
    /\ conversationContexts' = conversationContexts
    /\ \A id \in RequestIds : pendingRequests'[id] \in {0, pendingRequests[id]}

\* C22: a step that removes entries is a cleanup that removes exactly the
\* entries older than 30 minutes, whatever their status, and leaves every
\* other entry and the fields of all PendingRequest objects unchanged.
C22_CleanupRemovesExactlyOld ==
    [][/\ (\E id \in RequestIds : Found(id) /\ ~Found(id)') => CleanupStep
       /\ CleanupStep =>
             \A id \in RequestIds :
                 /\ Overdue(id) => pendingRequests'[id] = 0
                 /\ ~Overdue(id) => pendingRequests'[id] = pendingRequests[id]
      ]_vars

C22_Witness ==
    \E a \in RequestIds, b \in RequestIds, t \in Tasks :
        /\ ~Found(a)
        /\ tasks[t].id = a /\ tasks[t].status = "processing"
        /\ now - tasks[t].timestamp > maxAge
        /\ Found(b) /\ StatusOf(b).timestamp = now
        /\ StatusOf(b).status = "completed"

(***************************************************************************)
(* Malformed provider responses                                            *)
(***************************************************************************)
\* C23: a request whose provider answered 2xx without the summary content
\* ends with an error message and an empty summary, and writes no cache
\* entry.
C23_MalformedIsFailure ==
    \A t \in Tasks :
        tasks[t].malformed =>
            /\ tasks[t].writes = 0
            /\ tasks[t].pc # "cache_set"
            /\ Returned(t) =>
                  /\ tasks[t].ret.error # ""
                  /\ tasks[t].ret.summary = ""

(***************************************************************************)
(* Conversation contexts                                                   *)
(***************************************************************************)
\* the requests of tab whose messages are, or were until a clear, the context
Carrying(tabId) ==
    {t \in Tasks : Started(t) /\ tasks[t].request.tabId = tabId}

\* C24: after a request carrying tab t was processed and no clear ran since,
\* getConversationContext(t) is the message list of a request carrying t, of
\* that one if it is the only one; it is null when no request carrying t
\* stored since the last clear; an entry changes only by a request of its
\* own tab or by a clear.
C24_ContextLastWriteWins ==
    /\ [](\A tabId \in TabIds :
            /\ (\E t \in Carrying(tabId) :
                    Returned(t) /\ tasks[t].ctx # "cleared") =>
                  \E u \in Carrying(tabId) :
                      /\ tasks[u].ctx # "cleared"
                      /\ getConversationContext(tabId)
                             = << tasks[u].request.messages >>
            /\ (\A t \in Carrying(tabId) : tasks[t].ctx # "stored") =>
                  getConversationContext(tabId) = << >>)
    /\ [][\A tabId \in TabIds :
             getConversationContext(tabId)' # getConversationContext(tabId) =>
                \/ \E t \in Tasks :
                      /\ tasks'[t].request.tabId = tabId
                      /\ tasks[t].ctx # "stored" /\ tasks'[t].ctx = "stored"
                      /\ getConversationContext(tabId)'
                             = << tasks'[t].request.messages >>
                \/ /\ getConversationContext(tabId)' = << >>
                   /\ \A t \in Carrying(tabId) : tasks'[t].ctx = "cleared"
          ]_vars

(***************************************************************************)
(* Cache capacity                                                          *)
(***************************************************************************)
\* C25: the store never holds more than the configured maximum of entries,
\* and an entry that leaves the store by eviction had the smallest timestamp
\* of the entries stored.
C25_CacheCapacity ==
    /\ [](CacheCount(cache) <= CacheMaxSize)
    /\ [][\A k \in CacheKeys :
             (cache[k] # NoEntry /\ cache'[k] = NoEntry) =>
                \A o \in CacheKeys :
                    cache[o] # NoEntry =>
                        cache[k][1].timestamp <= cache[o][1].timestamp
          ]_vars

C25_Witness ==
    \E t \in Tasks, u \in Tasks :
        /\ t # u
        /\ tasks[t].evicted /\ tasks[u].evicted
        /\ tasks[t].pc = "done" /\ tasks[u].pc = "done"
        /\ CacheKeyOf(tasks[t].request) # CacheKeyOf(tasks[u].request)
        /\ cache[CacheKeyOf(tasks[t].request)] # NoEntry
        /\ cache[CacheKeyOf(tasks[u].request)] # NoEntry
        /\ CacheCount(cache) = CacheMaxSize

PassingChunk(t) ==
    Started(t) /\ tasks[t].pc = "api" /\ tasks[t].kind = "chunk"

\* C27: in a chunked operation the first chunk is passed on as it is, and
\* every later chunk is passed on as one synthetic system message carrying the
\* synopsis, followed by the messages of the chunk in order; the synopsis is
\* the provider's condensation of all the chunks before it.
C27_SynopsisPrepended ==
    \A t \in Tasks :
        PassingChunk(t) =>
            LET i == tasks[t].i
                chunk == tasks[t].chunks[i]
                passed == tasks[t].passed
            IN  IF i = 1
                THEN passed = chunk
                ELSE /\ Len(passed) = Len(chunk) + 1
                     /\ passed[1].role = "system"
                     /\ passed[1].text = tasks[t].conversationSummary
                     /\ [k \in 1..Len(chunk) |-> passed[k + 1]] = chunk
                     /\ tasks[t].condensed = i - 1

(***************************************************************************)
(* Direct and chunked routing                                              *)
(***************************************************************************)
\* the provider has been reached for t: the configuration passed validation
\* and a call is in flight
Calling(t) ==
    Started(t) /\ tasks[t].pc = "api" /\ tasks[t].attempt # "rejected"

\* C28: a request is chunked only if its estimate exceeds 100,000 tokens and
\* its provider offers callLargeContextAPI; every other request that reaches
\* the provider makes one call, and that call carries the message sequence of
\* the request.
C28_Routing ==
    \A t \in Tasks :
        Calling(t) =>
            LET request == tasks[t].request
            IN  IF tasks[t].kind \in {"chunk", "synopsis"}
                THEN /\ request.provider = "portkey"
                     /\ EstimatedTokens(request.messages) > LargeContextThreshold
                ELSE /\ tasks[t].calls = 1
                     /\ tasks[t].sent = request.messages

(***************************************************************************)
(* Resubmission and garbage collection                                     *)
(***************************************************************************)
\* C29: when an id is submitted a second time, the entry under the id is the
\* object of the second submission from then on, until it is removed: a later
\* terminal transition of the first submission does not put its own object
\* back, and the status reported is that of the second submission.
C29_SecondSubmissionOwns ==
    \A t, u \in Tasks :
        (Started(t) /\ Started(u) /\ t < u /\ tasks[t].id = tasks[u].id
         /\ Found(tasks[u].id)) =>
            /\ pendingRequests[tasks[u].id] = u
            /\ StatusOf(tasks[u].id).status = tasks[u].status

\* C30: once cleanupOldRequests has removed the entry of an id, the id stays
\* not-found through every step that does not submit it again, the steps of
\* its own request included.
C30_CleanupIsFinal ==
    [][\A id \in RequestIds :
          (SubmissionsOf(id) # {} /\ ~Found(id)
           /\ SubmissionsOf(id)' = SubmissionsOf(id)) => ~Found(id)'
      ]_vars

(***************************************************************************)
(* Provider configuration of concurrent requests                           *)
(***************************************************************************)
\* requests of the isolation specification: the Portkey route, direct and
\* chunked, under two different API keys and without one
IsolationRequests ==
    { Request(Single, "portkey", "k1", "", "english", FALSE, NoTab),
      Request(HugeChat, "portkey", "k2", "", "english", FALSE, NoTab),
      Request(Single, "portkey", "", "", "english", FALSE, NoTab) }

IsolationNext ==
    \/ \E request \in IsolationRequests :
           StartLLMRequest(generateRequestId, request)
    \/ \E t \in Tasks :
           \/ ProcessLLMRequest(t)
           \/ \E o \in LifecycleOutcomes : ProviderReturn(t, o)
           \/ ConfigRejected(t)
           \/ Settle(t)

IsolationSpec == Init /\ [][IsolationNext]_vars

\* C31: every provider call made for a request (direct call, fallback call,
\* chunk call, synopsis call) is made with the configuration of that request,
\* whatever other requests of the same provider are in flight.
C31_ConfigurationIsolation ==
    \A t \in Tasks :
        Calling(t) => tasks[t].key = tasks[t].request.apiKey

(***************************************************************************)
(* The newest message under processLargeContext                            *)
(***************************************************************************)
\* message m is in list w, whole or as a truncated prefix
Kept(m, w) ==
    \E k \in 1..Len(w) :
        /\ w[k].role = m.role
        /\ w[k].text = m.text
        /\ w[k].cut \/ w[k].len = m.len

\* C32: for every non-empty list given to callLargeContextAPI, the list sent
\* to the provider is non-empty and holds the last message of the input,
\* whole or truncated.
C32_NewestMessageKept ==
    (fnOutput.fn \in {"callLargeContextAPI", "chunkWithSynopsis"}
     /\ fnOutput.arg # << >>) =>
        /\ fnOutput.value # << >>
        /\ Kept(fnOutput.arg[Len(fnOutput.arg)], fnOutput.value)

(***************************************************************************)
(* Failure of a synopsis call                                              *)
(***************************************************************************)
\* C33: a synopsis call that fails does not end a chunked operation: the chunk
\* in hand is passed on next, behind the synopsis most recently obtained, or
\* alone when none was obtained; an operation that ends in an error ends on a
\* failed chunk call.
C33_SynopsisFailureTolerated ==
    /\ [](\A t \in Tasks :
            /\ PassingChunk(t) =>
                   tasks[t].passed =
                       integrateSummaryWithChunk(
                           tasks[t].chunks[tasks[t].i],
                           IF tasks[t].obtained = << >> THEN ""
                           ELSE tasks[t].obtained[1],
                           LanguageOf(tasks[t].request))
            /\ (InChunks(t) /\ Returned(t)) =>
                   /\ tasks[t].kind = "chunk"
                   /\ tasks[t].ret.error # "" => tasks[t].failure # "")
    /\ [][\A t \in Tasks :
             (Started(t) /\ tasks[t].pc = "api" /\ tasks[t].kind = "synopsis"
              /\ tasks'[t] # tasks[t]) =>
                /\ tasks'[t].pc = "api"
                /\ tasks'[t].i = tasks[t].i
                /\ tasks'[t].kind \in {"synopsis", "chunk"}
                /\ tasks'[t].missed = tasks[t].i =>
                       /\ tasks'[t].kind = "chunk"
                       /\ tasks'[t].obtained = tasks[t].obtained
                       /\ tasks'[t].passed[Len(tasks'[t].passed)] =
                              tasks[t].chunks[tasks[t].i][Len(tasks[t].chunks[tasks[t].i])]
       ]_vars

C33_Witness ==
    \E t \in Tasks :
        /\ tasks[t].pc = "done"
        /\ tasks[t].status = "completed"
        /\ Len(tasks[t].chunks) = 3
        /\ tasks[t].missed = 3
        /\ tasks[t].obtained = << "X" >>
        /\ tasks[t].passed = integrateSummaryWithChunk(tasks[t].chunks[3], "X", "english")
        /\ tasks[t].result = << Response("Y") >>

====
